---- MODULE Spec2Model ----
(***************************************************************************)
(* Model of Mayo::IO::System (src/src/base/io_system.cpp).                 *)
(*                                                                         *)
(* Part 1: System::importInDocument, the import orchestrator.  One caller  *)
(* thread (the orchestrator) and, in the many-files case, one read task    *)
(* per file run by the child task manager.  Each action is one step of the *)
(* code between two points where another thread can be observed.  The      *)
(* class TaskManager is declared outside src/: what the model takes from   *)
(* it is said at waitForDone, TaskEndsByException, TerminateOnException    *)
(* and TaskManagerDestroyed.                                               *)
(*                                                                         *)
(* Part 2: the registry of the System (format probes, reader and writer    *)
(* factories), System::probeFormat, System::exportApplicationItems and     *)
(* the predefined probers probeFormat_STL and probeFormat_OBJ.  Each part  *)
(* has its own specification; the variables of the other parts stay at     *)
(* their idle values.                                                      *)
(***************************************************************************)
EXTENDS Integers, Sequences, FiniteSets, TLC

\* ------------------------------------------------------------------ bounds
\* Largest filepath list given to importInDocument.
MaxFiles == 2
\* Largest entity sequence a Reader::transfer returns.
MaxEnt == 2

\* ----------------------------------------------------------------- formats
Format_Unknown == "Unknown"
Format_STEP == "STEP"
Format_IGES == "IGES"
\* The answers of probeFormat the import distinguishes: Unknown and two known
\* formats (whether post-processing is required for a format is an input).
Formats == {Format_Unknown, Format_STEP, Format_IGES}

\* std::filesystem::filesystem_error: what std::filesystem::file_size throws
\* inside probeFormat (a path that opens and has no size, as a directory).
filesystem_error == "filesystem_error"

\* Threads: 0 is the thread that called importInDocument, i > 0 is the pool
\* thread running the read task of file i.
Orchestrator == 0

VARIABLES
    listFilepath,   \* args.filepaths: sequence of paths
    argsPostProcess,\* [entityPostProcess: BOOLEAN, requiredIf: SUBSET Formats]
    abort,          \* rootProgress->isAbortRequested()
    ok,             \* the local "bool ok" shared by every lambda
    messenger,      \* errors emitted: path -> sequence of reasons
    vecTaskData,    \* the TaskData records (the single-file taskData is record 1)
    wpc,            \* position of fnReadFile for each file
    pc,             \* position of the orchestrator thread
    it,             \* find_if iterator: index being polled / selected (0 outside an iteration)
    taskDataCount,  \* the drain loop's remaining counter
    doc,            \* entities given to doc->addEntityTreeNode, in call order
    postProcessed,  \* entities given to args.entityPostProcess, in call order
    result,         \* <<value returned by importInDocument>>, << >> before it returns
    inTransfer,     \* <<thread, file>> pairs now executing Reader::transfer
    docThreads,     \* threads that have called Reader::transfer on the document
    joined,         \* tasks whose completion waitForDone reported to the orchestrator
    doneOrder,      \* files in the order their read tasks completed
    xferOrder,      \* files in the order Reader::transfer was invoked
    scanDone,       \* tasks already complete when the current find_if scan began
    abortAt,        \* number of transfers invoked when cancellation was requested
    m_vecFormatProbe,   \* System::m_vecFormatProbe
    m_vecFactoryReader, \* System::m_vecFactoryReader (the pointers held)
    m_vecReaderFormat,  \* System::m_vecReaderFormat
    m_vecFactoryWriter, \* System::m_vecFactoryWriter (the pointers held)
    m_vecWriterFormat,  \* System::m_vecWriterFormat
    destroyed,      \* factory objects whose destructor has run
    exportArgs,     \* Args_ExportApplicationItems: [messenger, targetFormat]
    exportPc,       \* position of exportApplicationItems
    writerMessenger,\* <<argument of Writer::setMessenger>>, << >> before the call
    exportCalls,    \* the calls made on the writer, in order
    exportMessages, \* Error messages emitted by fnError: [sink, reason]
    exportResult,   \* <<value returned by exportApplicationItems>>
    fnInput,        \* argument of the function under study
    fnResult        \* <<its result>>, << >> before it is applied

importVars == <<listFilepath, argsPostProcess, abort, ok, messenger, vecTaskData,
                wpc, pc, it, taskDataCount, doc, postProcessed, result,
                inTransfer, docThreads, joined, doneOrder, xferOrder, scanDone,
                abortAt>>
registryVars == <<m_vecFormatProbe, m_vecFactoryReader, m_vecReaderFormat,
                  m_vecFactoryWriter, m_vecWriterFormat, destroyed>>
exportVars == <<exportArgs, exportPc, writerMessenger, exportCalls,
                exportMessages, exportResult>>
fnVars == <<fnInput, fnResult>>
\* What importInDocument leaves alone.
notImportVars == <<registryVars, exportVars, fnVars>>

vars == <<importVars, registryVars, exportVars, fnVars>>

\* ------------------------------------------------------------------ helpers
N == Len(listFilepath)
Files == 1..N
SingleFile == N = 1

\* struct TaskData, default-constructed.
TaskData(fp) ==
    [reader |-> "null", filepath |-> fp, fileFormat |-> Format_Unknown,
     seqTransferredEntity |-> << >>, readSuccess |-> FALSE, transferred |-> FALSE]

\* The entity labels a transfer of file i yields when it returns k of them.
Labels(i, k) == [e \in 1..k |-> <<i, e>>]

\* fnEntityPostProcessRequired
fnEntityPostProcessRequired(format) ==
    IF argsPostProcess.entityPostProcess
    THEN format \in argsPostProcess.requiredIf
    ELSE FALSE

\* TaskProgress::isAbortRequested on a progress node below the root: the
\* cancellation signal is propagated from the root.
isAbortRequested == abort

\* fnAddError: ok = false, then one Error message naming the path.
fnAddError(fp, errorMsg) ==
    /\ ok' = FALSE
    /\ messenger' = [messenger EXCEPT ![fp] = Append(@, errorMsg)]

\* TaskManager::waitForDone(taskId, 25): true when the read task of file i
\* has finished (a task that finishes during the wait is seen finished); a
\* task still inside fnReadFile, its error already emitted or not, is not.
\* A task ended by the task manager after an exception left its body has
\* finished too.
waitForDone(i) == wpc[i] \in {"done", "excepted"}

\* std::terminate has been called: no thread of the process runs any more.
Terminated == \E i \in DOMAIN wpc : wpc[i] = "terminated"

\* A System just constructed: nothing registered.
RegistryEmpty ==
    /\ m_vecFormatProbe = << >>
    /\ m_vecFactoryReader = << >>
    /\ m_vecReaderFormat = << >>
    /\ m_vecFactoryWriter = << >>
    /\ m_vecWriterFormat = << >>
    /\ destroyed = {}

\* No export requested.
ExportIdle ==
    /\ exportArgs = [messenger |-> "nullptr", targetFormat |-> Format_Unknown]
    /\ exportPc = "idle"
    /\ writerMessenger = << >>
    /\ exportCalls = << >>
    /\ exportMessages = << >>
    /\ exportResult = << >>

\* No function under study.
FnIdle == fnInput = << >> /\ fnResult = << >>

\* ------------------------------------------------------------------ Init
Init ==
    /\ listFilepath \in {[i \in 1..k |-> i] : k \in 0..MaxFiles}
    /\ argsPostProcess \in
         {[entityPostProcess |-> FALSE, requiredIf |-> {Format_STEP}],
          [entityPostProcess |-> TRUE, requiredIf |-> {Format_STEP}]}
    /\ abort = FALSE
    /\ ok = TRUE
    /\ messenger = [p \in 1..MaxFiles |-> << >>]
    /\ vecTaskData = << >>
    /\ wpc = << >>
    /\ pc = "start"
    /\ it = 0
    /\ taskDataCount = 0
    /\ doc = << >>
    /\ postProcessed = << >>
    /\ result = << >>
    /\ inTransfer = {}
    /\ docThreads = {}
    /\ joined = {}
    /\ doneOrder = << >>
    /\ xferOrder = << >>
    /\ scanDone = {}
    /\ abortAt = -1
    /\ RegistryEmpty
    /\ ExportIdle
    /\ FnIdle

\* ------------------------------------------------- importInDocument: entry
\* listFilepath.size() == 1: the orchestrator itself runs fnReadFile.
ImportSingle ==
    /\ pc = "start"
    /\ N = 1
    /\ vecTaskData' = <<TaskData(listFilepath[1])>>
    /\ wpc' = <<"probe">>
    /\ pc' = "single_read"
    /\ it' = 1
    /\ UNCHANGED <<notImportVars, listFilepath, argsPostProcess, abort, ok, messenger,
                   taskDataCount, doc, postProcessed, result, inTransfer,
                   docThreads, joined, doneOrder, xferOrder, scanDone, abortAt>>

\* Many files case (also the empty list): one TaskData and one read task per
\* filepath, all tasks run, then the drain loop starts.
ImportMany ==
    /\ pc = "start"
    /\ N # 1
    /\ vecTaskData' = [i \in 1..N |-> TaskData(listFilepath[i])]
    /\ wpc' = [i \in 1..N |-> "probe"]
    /\ taskDataCount' = N
    /\ pc' = "loop"
    /\ UNCHANGED <<notImportVars, listFilepath, argsPostProcess, abort, ok, messenger, it,
                   doc, postProcessed, result, inTransfer, docThreads, joined,
                   doneOrder, xferOrder, scanDone, abortAt>>

\* --------------------------------------------------------------- fnReadFile
\* fnReadFile of file i runs on the orchestrator in the single-file case and
\* in its own task otherwise.
ReadRunning(i) ==
    /\ i \in DOMAIN wpc
    /\ ~Terminated
    /\ SingleFile => pc = "single_read"

\* Variant of the task body in which a task that read its file goes on to call
\* reader->transfer itself, on its own pool thread.
ReadReturn_transferInTask(i, td, ret) ==
    /\ wpc' = [wpc EXCEPT ![i] = "done"]
    /\ IF SingleFile
       THEN /\ vecTaskData' = [vecTaskData EXCEPT ![i] = td]
            /\ pc' = IF ret THEN "transfer" ELSE "return"
            /\ UNCHANGED <<doneOrder, inTransfer, docThreads, xferOrder>>
       ELSE /\ vecTaskData' = [vecTaskData EXCEPT ![i] =
                                 [td EXCEPT !.readSuccess = ret,
                                            !.reader = IF ret THEN "transferring" ELSE @]]
            /\ doneOrder' = Append(doneOrder, i)
            /\ inTransfer' = IF ret THEN inTransfer \cup {<<i, i>>} ELSE inTransfer
            /\ docThreads' = IF ret THEN docThreads \cup {i} ELSE docThreads
            /\ xferOrder' = IF ret THEN Append(xferOrder, i) ELSE xferOrder
            /\ UNCHANGED pc

\* What the caller of fnReadFile does with its return value: line 283 assigns
\* it to ok, the task body (line 304) to taskData.readSuccess and finishes.
ReadReturn(i, td, ret) ==
    /\ wpc' = [wpc EXCEPT ![i] = "done"]
    /\ UNCHANGED <<inTransfer, docThreads, xferOrder>>
    /\ IF SingleFile
       THEN /\ vecTaskData' = [vecTaskData EXCEPT ![i] = td]
            /\ pc' = IF ret THEN "transfer" ELSE "return"
            /\ UNCHANGED doneOrder
       ELSE /\ vecTaskData' = [vecTaskData EXCEPT ![i] = [td EXCEPT !.readSuccess = ret]]
            /\ doneOrder' = Append(doneOrder, i)
            /\ UNCHANGED pc

\* fnReadFileError: fnAddError, after which "return false" is pending.  The
\* error is emitted inside fnReadFile: the task has not finished yet.
fnReadFileError(i, td, errorMsg) ==
    /\ fnAddError(td.filepath, errorMsg)
    /\ vecTaskData' = [vecTaskData EXCEPT ![i] = td]
    /\ wpc' = [wpc EXCEPT ![i] = "errorRet"]
    /\ UNCHANGED <<pc, doneOrder, inTransfer, docThreads, xferOrder>>

\* fnReadFile returns the false of fnReadFileError to its caller: line 283
\* assigns it to ok, the task body (line 304) to readSuccess and finishes.
ReadErrorReturn(i) ==
    /\ ReadRunning(i)
    /\ wpc[i] = "errorRet"
    /\ ReadReturn(i, vecTaskData[i], FALSE)
    /\ ok' = IF SingleFile THEN FALSE ELSE ok
    /\ UNCHANGED <<notImportVars, listFilepath, argsPostProcess, abort, messenger, it,
                   taskDataCount, doc, postProcessed, result, joined, scanDone, abortAt>>

\* The exception of probeFormat leaves fnReadFile, which has no handler,
\* before anything is stored: in the single-file case it then leaves
\* importInDocument (line 283), which returns nothing; otherwise it leaves
\* the body of the task (line 304) before readSuccess is assigned.
ReadProbeThrows(i) ==
    /\ wpc' = [wpc EXCEPT ![i] = "thrown"]
    /\ pc' = IF SingleFile THEN "thrown" ELSE pc
    /\ UNCHANGED <<vecTaskData, ok, messenger, doneOrder, inTransfer,
                   docThreads, xferOrder>>

\* taskData.fileFormat = probeFormat(filepath); Unknown is the first error.
ReadProbe(i) ==
    /\ ReadRunning(i)
    /\ wpc[i] = "probe"
    /\ \E f \in Formats \cup {filesystem_error} :
         LET td == [vecTaskData[i] EXCEPT !.fileFormat = f] IN
         IF f = filesystem_error
         THEN ReadProbeThrows(i)
         ELSE IF f = Format_Unknown
         THEN fnReadFileError(i, td, "Unknown format")
         ELSE /\ vecTaskData' = [vecTaskData EXCEPT ![i] = td]
              /\ wpc' = [wpc EXCEPT ![i] = "create"]
              /\ UNCHANGED <<ok, messenger, pc, doneOrder, inTransfer,
                             docThreads, xferOrder>>
    /\ UNCHANGED <<notImportVars, listFilepath, argsPostProcess, abort, it, taskDataCount, doc,
                   postProcessed, result, joined, scanDone, abortAt>>

\* An exception has left the body of the read task of file i.  What follows
\* is decided by the task manager, outside src/.  First outcome: the manager
\* catches the exception and the task ends: waitForDone reports it finished;
\* nothing was stored in the record, no Error was emitted, ok is untouched.
TaskEndsByException(i) ==
    /\ ~SingleFile
    /\ i \in DOMAIN wpc
    /\ ~Terminated
    /\ wpc[i] = "thrown"
    /\ wpc' = [wpc EXCEPT ![i] = "excepted"]
    /\ doneOrder' = Append(doneOrder, i)
    /\ UNCHANGED <<notImportVars, listFilepath, argsPostProcess, abort, ok, messenger,
                   vecTaskData, pc, it, taskDataCount, doc, postProcessed, result,
                   inTransfer, docThreads, joined, xferOrder, scanDone, abortAt>>

\* Second outcome: nothing catches the exception on the task's thread and
\* std::terminate ends the process, the calling thread included.
TerminateOnException(i) ==
    /\ ~SingleFile
    /\ i \in DOMAIN wpc
    /\ ~Terminated
    /\ wpc[i] = "thrown"
    /\ wpc' = [wpc EXCEPT ![i] = "terminated"]
    /\ UNCHANGED <<notImportVars, listFilepath, argsPostProcess, abort, ok, messenger,
                   vecTaskData, pc, it, taskDataCount, doc, postProcessed, result,
                   inTransfer, docThreads, joined, doneOrder, xferOrder, scanDone,
                   abortAt>>

\* taskData.reader = createReader(fileFormat); a null reader is the second
\* error, otherwise setMessenger, applyProperties and readFile is entered.
ReadCreate(i) ==
    /\ ReadRunning(i)
    /\ wpc[i] = "create"
    /\ \E created \in BOOLEAN :
         IF ~created
         THEN fnReadFileError(i, vecTaskData[i], "No supporting reader")
         ELSE /\ vecTaskData' = [vecTaskData EXCEPT ![i].reader = "reading"]
              /\ wpc' = [wpc EXCEPT ![i] = "readFile"]
              /\ UNCHANGED <<ok, messenger, pc, doneOrder, inTransfer,
                             docThreads, xferOrder>>
    /\ UNCHANGED <<notImportVars, listFilepath, argsPostProcess, abort, it, taskDataCount, doc,
                   postProcessed, result, joined, scanDone, abortAt>>

\* reader->readFile returns; false is the third error.
ReadFileReturn(i) ==
    /\ ReadRunning(i)
    /\ wpc[i] = "readFile"
    /\ \E ret \in BOOLEAN :
         IF ~ret
         THEN fnReadFileError(i, [vecTaskData[i] EXCEPT !.reader = "read_failed"],
                              "File read problem")
         ELSE /\ ReadReturn(i, [vecTaskData[i] EXCEPT !.reader = "read_ok"], TRUE)
              /\ ok' = IF SingleFile THEN TRUE ELSE ok
              /\ UNCHANGED messenger
    /\ UNCHANGED <<notImportVars, listFilepath, argsPostProcess, abort, it, taskDataCount, doc,
                   postProcessed, result, joined, scanDone, abortAt>>

\* ------------------------------------------------- fnTransfer and followers
\* Variant of fnTransfer that does not look at the abort request.
fnTransferEnter_ignoresAbort(th, i) ==
    IF vecTaskData[i].reader # "null"
    THEN /\ vecTaskData' = [vecTaskData EXCEPT ![i].reader = "transferring"]
         /\ inTransfer' = inTransfer \cup {<<th, i>>}
         /\ docThreads' = docThreads \cup {th}
         /\ xferOrder' = Append(xferOrder, i)
         /\ pc' = "in_transfer"
    ELSE /\ vecTaskData' = [vecTaskData EXCEPT ![i].transferred = TRUE]
         /\ pc' = "postprocess"
         /\ UNCHANGED <<inTransfer, docThreads, xferOrder>>

\* fnTransfer up to the call of reader->transfer, on thread th for file i:
\* the call is made when the reader exists and no abort is requested,
\* otherwise the record is only marked transferred.
fnTransferEnter(th, i) ==
    IF vecTaskData[i].reader # "null" /\ ~isAbortRequested
    THEN /\ vecTaskData' = [vecTaskData EXCEPT ![i].reader = "transferring"]
         /\ inTransfer' = inTransfer \cup {<<th, i>>}
         /\ docThreads' = docThreads \cup {th}
         /\ xferOrder' = Append(xferOrder, i)
         /\ pc' = "in_transfer"
    ELSE /\ vecTaskData' = [vecTaskData EXCEPT ![i].transferred = TRUE]
         /\ pc' = "postprocess"
         /\ UNCHANGED <<inTransfer, docThreads, xferOrder>>

TransferEnter ==
    /\ pc = "transfer"
    /\ ~Terminated
    /\ fnTransferEnter(Orchestrator, it)
    /\ UNCHANGED <<notImportVars, listFilepath, argsPostProcess, abort, ok, messenger, wpc, it,
                   taskDataCount, doc, postProcessed, result, joined, doneOrder,
                   scanDone, abortAt>>

\* reader->transfer returns k entities; an empty sequence is the fourth
\* error; the record is marked transferred.
TransferReturn ==
    /\ pc = "in_transfer"
    /\ ~Terminated
    /\ \E k \in 0..MaxEnt :
         /\ vecTaskData' = [vecTaskData EXCEPT
                              ![it].seqTransferredEntity = Labels(it, k),
                              ![it].reader = "transferred",
                              ![it].transferred = TRUE]
         /\ IF k = 0
            THEN fnAddError(vecTaskData[it].filepath, "File transfer problem")
            ELSE UNCHANGED <<ok, messenger>>
    /\ inTransfer' = inTransfer \ {<<Orchestrator, it>>}
    /\ pc' = "postprocess"
    /\ UNCHANGED <<notImportVars, listFilepath, argsPostProcess, abort, wpc, it, taskDataCount,
                   doc, postProcessed, result, docThreads, joined, doneOrder,
                   xferOrder, scanDone, abortAt>>

\* Variant of fnPostProcess that returns without calling entityPostProcess.
fnPostProcess_never ==
    /\ pc = "postprocess"
    /\ ~Terminated
    /\ pc' = "addtree"
    /\ UNCHANGED <<notImportVars, listFilepath, argsPostProcess, abort, ok, messenger,
                   vecTaskData, wpc, it, taskDataCount, doc, postProcessed,
                   result, inTransfer, docThreads, joined, doneOrder, xferOrder,
                   scanDone, abortAt>>

\* fnPostProcess: args.entityPostProcess on every transferred entity, in
\* order, when the file's format requires it.
fnPostProcess ==
    /\ pc = "postprocess"
    /\ ~Terminated
    /\ postProcessed' =
         IF fnEntityPostProcessRequired(vecTaskData[it].fileFormat)
         THEN postProcessed \o vecTaskData[it].seqTransferredEntity
         ELSE postProcessed
    /\ pc' = "addtree"
    /\ UNCHANGED <<notImportVars, listFilepath, argsPostProcess, abort, ok, messenger,
                   vecTaskData, wpc, it, taskDataCount, doc, result, inTransfer,
                   docThreads, joined, doneOrder, xferOrder, scanDone, abortAt>>

\* Variant of fnAddModelTreeEntities that attaches the first entity only.
fnAddModelTreeEntities_firstOnly ==
    /\ pc = "addtree"
    /\ ~Terminated
    /\ doc' = IF vecTaskData[it].seqTransferredEntity = << >> THEN doc
              ELSE Append(doc, Head(vecTaskData[it].seqTransferredEntity))
    /\ IF SingleFile
       THEN pc' = "return" /\ UNCHANGED <<taskDataCount, it, scanDone>>
       ELSE /\ pc' = "loop"
            /\ taskDataCount' = taskDataCount - 1
            /\ it' = 0
            /\ scanDone' = {}
    /\ UNCHANGED <<notImportVars, listFilepath, argsPostProcess, abort, ok, messenger,
                   vecTaskData, wpc, postProcessed, result, inTransfer,
                   docThreads, joined, doneOrder, xferOrder, abortAt>>

\* fnAddModelTreeEntities: doc->addEntityTreeNode on every transferred entity;
\* then the single-file case returns and the drain loop decrements its counter.
fnAddModelTreeEntities ==
    /\ pc = "addtree"
    /\ ~Terminated
    /\ doc' = doc \o vecTaskData[it].seqTransferredEntity
    /\ IF SingleFile
       THEN pc' = "return" /\ UNCHANGED <<taskDataCount, it, scanDone>>
       ELSE /\ pc' = "loop"
            /\ taskDataCount' = taskDataCount - 1
            /\ it' = 0
            /\ scanDone' = {}
    /\ UNCHANGED <<notImportVars, listFilepath, argsPostProcess, abort, ok, messenger,
                   vecTaskData, wpc, postProcessed, result, inTransfer,
                   docThreads, joined, doneOrder, xferOrder, abortAt>>

\* ---------------------------------------------------------- the drain loop
\* Variant of the drain loop whose scan starts at the last record.
LoopTest_scanFromLast ==
    /\ pc = "loop"
    /\ ~Terminated
    /\ IF taskDataCount > 0 /\ ~abort
       THEN /\ pc' = "find"
            /\ it' = N
            /\ scanDone' = {i \in Files : waitForDone(i)}
       ELSE /\ pc' = "return"
            /\ UNCHANGED <<it, scanDone>>
    /\ UNCHANGED <<notImportVars, listFilepath, argsPostProcess, abort, ok, messenger,
                   vecTaskData, wpc, taskDataCount, doc, postProcessed, result,
                   inTransfer, docThreads, joined, doneOrder, xferOrder, abortAt>>

\* while (taskDataCount > 0 && !rootProgress->isAbortRequested())
LoopTest ==
    /\ pc = "loop"
    /\ ~Terminated
    /\ IF taskDataCount > 0 /\ ~abort
       THEN /\ pc' = "find"
            /\ it' = 1
            /\ scanDone' = {i \in Files : waitForDone(i)}
       ELSE /\ pc' = "return"
            /\ UNCHANGED <<it, scanDone>>
    /\ UNCHANGED <<notImportVars, listFilepath, argsPostProcess, abort, ok, messenger,
                   vecTaskData, wpc, taskDataCount, doc, postProcessed, result,
                   inTransfer, docThreads, joined, doneOrder, xferOrder, abortAt>>

\* Variant of the drain loop without the readSuccess test.
ReadSucceeded_always(i) == TRUE

\* if (it->readSuccess)
ReadSucceeded(i) == vecTaskData[i].readSuccess

\* Variant of the drain loop that decrements the counter only after a transfer.
FindIf_decrementOnTransferOnly ==
    /\ pc = "find"
    /\ ~Terminated
    /\ IF it > N
       THEN /\ pc' = "loop"
            /\ it' = 0
            /\ scanDone' = {}
            /\ UNCHANGED joined
       ELSE IF ~vecTaskData[it].transferred /\ waitForDone(it)
       THEN /\ joined' = joined \cup {it}
            /\ IF ReadSucceeded(it)
               THEN pc' = "transfer" /\ UNCHANGED <<it, scanDone>>
               ELSE pc' = "loop" /\ it' = 0 /\ scanDone' = {}
       ELSE /\ it' = it + 1
            /\ UNCHANGED <<pc, joined, scanDone>>
    /\ UNCHANGED <<notImportVars, listFilepath, argsPostProcess, abort, ok, messenger,
                   vecTaskData, wpc, doc, postProcessed, result, inTransfer,
                   docThreads, doneOrder, xferOrder, abortAt, taskDataCount>>

\* One evaluation of the find_if predicate at position it, and what follows a
\* match: !transferred && waitForDone(taskId, 25).  A match with a successful
\* read goes on to fnTransfer, a match with a failed read only decrements the
\* counter; no match advances the iterator, the end of the vector ends the
\* iteration.
FindIf ==
    /\ pc = "find"
    /\ ~Terminated
    /\ IF it > N
       THEN /\ pc' = "loop"
            /\ it' = 0
            /\ scanDone' = {}
            /\ UNCHANGED <<joined, taskDataCount>>
       ELSE IF ~vecTaskData[it].transferred /\ waitForDone(it)
       THEN /\ joined' = joined \cup {it}
            /\ IF ReadSucceeded(it)
               THEN pc' = "transfer" /\ UNCHANGED <<taskDataCount, it, scanDone>>
               ELSE /\ pc' = "loop"
                    /\ taskDataCount' = taskDataCount - 1
                    /\ it' = 0
                    /\ scanDone' = {}
       ELSE /\ it' = it + 1
            /\ UNCHANGED <<pc, joined, taskDataCount, scanDone>>
    /\ UNCHANGED <<notImportVars, listFilepath, argsPostProcess, abort, ok, messenger,
                   vecTaskData, wpc, doc, postProcessed, result, inTransfer,
                   docThreads, doneOrder, xferOrder, abortAt>>

\* ------------------------------------------------------------------ return
\* Variant of the destruction of the child task manager that does not wait
\* for the tasks it runs.
TaskManagerDestroyed_noWait == TRUE

\* The end of the many-files block (line 328) destroys childTaskManager, then
\* vecTaskData.  The destructor of TaskManager returns when every task the
\* manager ran has finished: the task bodies hold references to the records
\* of vecTaskData, to ok and to the messenger (lines 302-305), which end with
\* the block and the call.  The single-file case has no task manager.
TaskManagerDestroyed == SingleFile \/ \A i \in DOMAIN wpc : waitForDone(i)

\* Variant of the return that reports an empty filepath list as a failure.
Return_emptyFails ==
    /\ pc = "return"
    /\ TaskManagerDestroyed
    /\ result' = <<ok /\ N > 0>>
    /\ pc' = "returned"
    /\ UNCHANGED <<notImportVars, listFilepath, argsPostProcess, abort, ok, messenger,
                   vecTaskData, wpc, it, taskDataCount, doc, postProcessed,
                   inTransfer, docThreads, joined, doneOrder, xferOrder,
                   scanDone, abortAt>>

\* The end of the block and "return ok" (lines 328-330): once the child task
\* manager is destroyed no task writes ok any more, and ok is returned.
Return ==
    /\ pc = "return"
    /\ TaskManagerDestroyed
    /\ result' = <<ok>>
    /\ pc' = "returned"
    /\ UNCHANGED <<notImportVars, listFilepath, argsPostProcess, abort, ok, messenger,
                   vecTaskData, wpc, it, taskDataCount, doc, postProcessed,
                   inTransfer, docThreads, joined, doneOrder, xferOrder,
                   scanDone, abortAt>>

\* ------------------------------------------------------------- environment
\* The owner of the root progress requests cancellation while the operation
\* is pending or running.
RequestAbort ==
    /\ pc \notin {"returned", "thrown"}
    /\ ~Terminated
    /\ ~abort
    /\ abort' = TRUE
    /\ abortAt' = Len(xferOrder)
    /\ UNCHANGED <<notImportVars, listFilepath, argsPostProcess, ok, messenger, vecTaskData,
                   wpc, pc, it, taskDataCount, doc, postProcessed, result,
                   inTransfer, docThreads, joined, doneOrder, xferOrder, scanDone>>

\* ---------------------------------------------------------- specification
\* One step of fnReadFile for file i.
fnReadFileStep(i) ==
    ReadProbe(i) \/ ReadCreate(i) \/ ReadFileReturn(i) \/ ReadErrorReturn(i)

\* The steps of the read tasks of the many-files case, and of the task
\* manager that ends them.
ReadStep ==
    /\ ~SingleFile
    /\ \E i \in 1..MaxFiles :
         fnReadFileStep(i) \/ TaskEndsByException(i) \/ TerminateOnException(i)

\* The steps of the calling thread; in the single-file case it runs
\* fnReadFile itself (line 283).
OrchestratorStep ==
    \/ ImportSingle
    \/ SingleFile /\ fnReadFileStep(1)
    \/ ImportMany
    \/ LoopTest
    \/ FindIf
    \/ TransferEnter
    \/ TransferReturn
    \/ fnPostProcess
    \/ fnAddModelTreeEntities
    \/ Return

Next ==
    \/ ImportSingle
    \/ ImportMany
    \/ \E i \in 1..MaxFiles : ReadProbe(i)
    \/ \E i \in 1..MaxFiles : ReadCreate(i)
    \/ \E i \in 1..MaxFiles : ReadFileReturn(i)
    \/ \E i \in 1..MaxFiles : ReadErrorReturn(i)
    \/ \E i \in 1..MaxFiles : TaskEndsByException(i)
    \/ \E i \in 1..MaxFiles : TerminateOnException(i)
    \/ LoopTest
    \/ FindIf
    \/ TransferEnter
    \/ TransferReturn
    \/ fnPostProcess
    \/ fnAddModelTreeEntities
    \/ Return
    \/ RequestAbort

Spec == Init /\ [][Next]_vars

\* The calling thread always runs; nothing is assumed of the read tasks.
LiveSpec == Init /\ [][Next]_vars /\ WF_vars(OrchestratorStep)

\* ====================================================================
\* Properties of importInDocument
\* ====================================================================
\* The files an Error is due for, and its reason: the first stage that
\* failed (Unknown format, No supporting reader, File read problem, File
\* transfer problem), "none" when no stage failed.  A file whose probe was
\* left by the exception of file_size failed in the probe stage.
FailReason(i) ==
    LET td == vecTaskData[i] IN
    IF wpc[i] \in {"thrown", "excepted", "terminated"} THEN filesystem_error
    ELSE IF wpc[i] \in {"errorRet", "done"} /\ td.fileFormat = Format_Unknown
    THEN "Unknown format"
    ELSE IF wpc[i] \in {"errorRet", "done"} /\ td.reader = "null"
    THEN "No supporting reader"
    ELSE IF td.reader = "read_failed" THEN "File read problem"
    ELSE IF td.reader = "transferred" /\ td.seqTransferredEntity = << >>
    THEN "File transfer problem"
    ELSE "none"

FileFailed(i) == FailReason(i) # "none"

Range(seq) == {seq[k] : k \in DOMAIN seq}

\* Position of x in a sequence without repetition (0 when absent).
Pos(seq, x) == IF x \in Range(seq) THEN CHOOSE k \in DOMAIN seq : seq[k] = x ELSE 0

\* Every entity of file i has been given to addEntityTreeNode.
Attached(i) == Range(vecTaskData[i].seqTransferredEntity) \subseteq Range(doc)

\* C1: at most one Reader::transfer executes at any time, it executes on the
\* orchestrator thread inside the drain step of the selected file, and no
\* read task thread ever calls transfer on the document.
SerialisedTransfer ==
    /\ Cardinality(inTransfer) <= 1
    /\ \A p \in inTransfer : p[1] = Orchestrator /\ p[2] = it /\ pc = "in_transfer"
    /\ docThreads \subseteq {Orchestrator}
    /\ \A i \in DOMAIN vecTaskData :
         vecTaskData[i].reader = "transferring" => <<Orchestrator, i>> \in inTransfer

\* A transfer is executing while the read of another file is still running.
TransferDuringRead ==
    /\ inTransfer # {}
    /\ \E j \in Files : wpc[j] = "readFile"

\* C2: a reader enters transfer only from the state "readFile returned true",
\* and a file whose probe, reader creation or readFile failed is never in
\* the list of invoked transfers.
ReadBeforeTransfer ==
    /\ [](\A i \in DOMAIN vecTaskData :
            i \in Range(xferOrder) =>
              /\ wpc[i] = "done"
              /\ vecTaskData[i].fileFormat # Format_Unknown
              /\ vecTaskData[i].reader \in {"transferring", "transferred"})
    /\ [][\A i \in DOMAIN vecTaskData :
            (vecTaskData[i].reader # "transferring"
               /\ vecTaskData'[i].reader = "transferring")
            => vecTaskData[i].reader = "read_ok"]_vars

\* A file of a many-files import is being transferred after another file's
\* readFile returned false.
TransferAfterOtherReadFailed ==
    /\ ~SingleFile
    /\ \E i, j \in DOMAIN vecTaskData :
         /\ vecTaskData[i].reader = "transferring"
         /\ vecTaskData[j].reader = "read_failed"
         /\ j \in joined

\* C3: when a many-files import returns without cancellation and every read
\* task has completed, every file that did not fail at any stage has been
\* transferred and its entities are attached to the document.
PartialFailureTolerance ==
    (pc = "returned" /\ ~abort /\ ~SingleFile /\ \A i \in Files : wpc[i] = "done")
    => \A i \in Files :
         ~FileFailed(i) =>
           /\ vecTaskData[i].reader = "transferred"
           /\ Attached(i)

\* C4: when importInDocument is over, it has returned false if at least one
\* file of the operation failed and true otherwise.
ReturnIsAndOfSuccesses ==
    pc \in {"returned", "thrown"}
    => /\ result \in {<<TRUE>>, <<FALSE>>}
       /\ result = <<FALSE>> <=> \E i \in Files : FileFailed(i)

\* C5 (as claimed): cancellation requested before any transfer started makes
\* the operation return true with nothing attached, whatever the reads did.
CancelBeforeTransferReturnsTrue ==
    (abortAt = 0 /\ pc = "returned") => (result = <<TRUE>> /\ doc = << >>)

\* C5 (amended): cancellation requested before any transfer started means no
\* transfer is ever invoked and nothing is attached; the operation returns
\* the current success state: false only if a read stage failed, and in the
\* single-file case false exactly when the read stage failed.
CancelBeforeTransfer ==
    abortAt = 0 =>
      /\ xferOrder = << >>
      /\ doc = << >>
      /\ postProcessed = << >>
      /\ pc = "returned" =>
           /\ result = <<FALSE>> => \E i \in Files : FileFailed(i)
           /\ SingleFile => (result = <<FALSE>> <=> FileFailed(1))

\* Cancelled before any transfer: a file was read successfully, fnTransfer
\* skipped its transfer and the operation returned.
CancelledAfterGoodRead ==
    /\ abortAt = 0 /\ pc = "returned"
    /\ \E i \in Files :
         /\ vecTaskData[i].reader = "read_ok"
         /\ vecTaskData[i].transferred

OneErrorPerFailedFile ==
    /\ \A i \in DOMAIN vecTaskData :
         messenger[vecTaskData[i].filepath] =
           IF FileFailed(i) THEN <<FailReason(i)>> ELSE << >>
    /\ \A p \in DOMAIN messenger :
         p \notin {vecTaskData[i].filepath : i \in DOMAIN vecTaskData}
           => messenger[p] = << >>

\* C8: within a file the stages are ordered read, transfer, post-process,
\* attach: a reader in or past transfer belongs to a finished fnReadFile;
\* only entities of a returned transfer are post-processed; an attached
\* entity of a format requiring post-processing has been post-processed;
\* and a file past its transfer is fully post-processed and attached unless
\* it is the file the orchestrator is still handling, so before any other
\* transfer starts.
StagesInOrder ==
    /\ \A i \in DOMAIN vecTaskData :
         vecTaskData[i].reader \in {"transferring", "transferred"} => wpc[i] = "done"
    /\ \A l \in Range(postProcessed) :
         /\ vecTaskData[l[1]].reader = "transferred"
         /\ l \in Range(vecTaskData[l[1]].seqTransferredEntity)
    /\ \A l \in Range(doc) :
         /\ l \in Range(vecTaskData[l[1]].seqTransferredEntity)
         /\ fnEntityPostProcessRequired(vecTaskData[l[1]].fileFormat)
              => l \in Range(postProcessed)
    /\ \A i \in DOMAIN vecTaskData :
         (vecTaskData[i].reader = "transferred"
            /\ ~(i = it /\ pc \in {"postprocess", "addtree"}))
         => /\ Attached(i)
            /\ fnEntityPostProcessRequired(vecTaskData[i].fileFormat)
                 => Range(vecTaskData[i].seqTransferredEntity) \subseteq Range(postProcessed)

\* A second file is in transfer after the first file's entities, of a format
\* requiring post-processing, were post-processed and attached.
SecondTransferAfterFirstAttached ==
    /\ inTransfer # {}
    /\ Len(doc) = MaxEnt
    /\ Len(postProcessed) = MaxEnt

\* C9 (as claimed): of two transferred files, the one whose read completed
\* first is transferred first.
TransfersInCompletionOrder ==
    \A a, b \in Range(xferOrder) :
      (a \in Range(doneOrder) /\ b \in Range(doneOrder)
         /\ Pos(doneOrder, a) < Pos(doneOrder, b))
      => Pos(xferOrder, a) < Pos(xferOrder, b)

\* C9 (amended): transfers follow the drain loop's selection, which is list
\* order among the reads already complete: the file an iteration transfers
\* is preceded in the list by no untransferred file whose read was complete
\* when the iteration began; and every transferred file's read had completed.
TransfersInSelectionOrder ==
    /\ (~SingleFile /\ pc \in {"transfer", "in_transfer", "postprocess", "addtree"})
         => \A j \in scanDone : j < it => vecTaskData[j].transferred
    /\ ~SingleFile => Range(xferOrder) \subseteq Range(doneOrder)

\* Both reads were complete when the iteration began, the second file's
\* first, and the iteration selected the first file of the list.
ListOrderBeatsCompletionOrder ==
    /\ pc = "transfer" /\ it = 1
    /\ doneOrder = <<2, 1>>
    /\ scanDone = {1, 2}
    /\ ~vecTaskData[2].transferred

\* C10: with an empty filepath list no task record, read task, transfer,
\* post-process, document mutation or message exists, and the value
\* returned is true.
EmptyListNoWork ==
    N = 0 =>
      /\ vecTaskData = << >> /\ wpc = << >>
      /\ xferOrder = << >> /\ doneOrder = << >> /\ inTransfer = {}
      /\ doc = << >> /\ postProcessed = << >>
      /\ \A p \in DOMAIN messenger : messenger[p] = << >>
      /\ pc \in {"start", "loop", "return", "returned"}
      /\ pc = "returned" => result = <<TRUE>>

\* An import of the empty list has returned.
EmptyListReturned == N = 0 /\ pc = "returned" /\ result = <<TRUE>>

\* ====================================================================
\* Part 2: the registry of the System
\* ====================================================================
\* Largest number of addFormatProbe calls the callers make with probers of
\* their own.
MaxProbes == 2

Format_STL == "STL"
Format_OBJ == "OBJ"
Format_OCCBREP == "OCCBREP"
\* The formats a factory can advertise and a prober can answer.
KnownFormats == {Format_STEP, Format_STL, Format_OBJ}

\* A null std::unique_ptr / a null raw pointer.
nullptr == "nullptr"

\* The factory objects the callers create.
ReaderFactories == {"reader1", "reader2", "reader3"}
WriterFactories == {"writer1", "writer2"}

\* FactoryReader::formats() / FactoryWriter::formats() of a live factory: the
\* span it advertises (a span may repeat a format).
formats(ptr) ==
    CASE ptr = "reader1" -> <<Format_STEP>>
      [] ptr = "reader2" -> <<Format_STL, Format_STEP>>
      [] ptr = "reader3" -> <<Format_OBJ, Format_OBJ>>
      [] ptr = "writer1" -> <<Format_STL>>
      [] ptr = "writer2" -> <<Format_OBJ, Format_STL>>

\* The probers of the callers: a prober is identified by its name, its answer
\* depends on the file only.
FormatProbes == {"probe1", "probe2"}

\* The probers addPredefinedFormatProbes registers, in its order.
PredefinedFormatProbes ==
    <<"probeFormat_STEP", "probeFormat_IGES", "probeFormat_OCCBREP",
      "probeFormat_STL", "probeFormat_OBJ">>

\* The format a predefined prober answers on a file it recognises.
PredefinedAnswer(probe) ==
    CASE probe = "probeFormat_STEP" -> Format_STEP
      [] probe = "probeFormat_IGES" -> Format_IGES
      [] probe = "probeFormat_OCCBREP" -> Format_OCCBREP
      [] probe = "probeFormat_STL" -> Format_STL
      [] probe = "probeFormat_OBJ" -> Format_OBJ

\* containsFormat, and std::find(...) != end() on a vector.
containsFormat(spanFormat, format) ==
    \E k \in DOMAIN spanFormat : spanFormat[k] = format

\* The loop "for (Format format : ptr->formats()) push_back if absent", from
\* element k of the span on.
RECURSIVE PushBackAbsent(_, _, _)
PushBackAbsent(vecFormat, spanFormat, k) ==
    IF k > Len(spanFormat) THEN vecFormat
    ELSE PushBackAbsent(IF containsFormat(vecFormat, spanFormat[k])
                        THEN vecFormat
                        ELSE Append(vecFormat, spanFormat[k]),
                        spanFormat, k + 1)

\* System::addFormatProbe
addFormatProbe(probe) ==
    /\ m_vecFormatProbe' = Append(m_vecFormatProbe, probe)
    /\ UNCHANGED <<m_vecFactoryReader, m_vecReaderFormat, m_vecFactoryWriter,
                   m_vecWriterFormat, destroyed, importVars, exportVars, fnVars>>

\* addPredefinedFormatProbes(system): nothing for a null system, otherwise
\* five addFormatProbe calls.
addPredefinedFormatProbes(system) ==
    /\ m_vecFormatProbe' = IF system = nullptr THEN m_vecFormatProbe
                           ELSE m_vecFormatProbe \o PredefinedFormatProbes
    /\ UNCHANGED <<m_vecFactoryReader, m_vecReaderFormat, m_vecFactoryWriter,
                   m_vecWriterFormat, destroyed, importVars, exportVars, fnVars>>

\* What System::addFactoryReader / addFactoryWriter does to its factory
\* vector vecFactory and its format vector vecFormat.  ptr is the by-value
\* std::unique_ptr parameter: on the early return of an already present
\* pointer it still owns the object, and its destructor deletes the object
\* the vector goes on pointing to.  std::find compares addresses: a factory
\* allocated after such a deletion can have the address of the deleted one,
\* which the vector still holds, and is then found present although it was
\* never registered (the vector is written as before: its element and ptr
\* are one address).
addFactory(ptr, vecFactory, vecFormat, vecFactoryNext, vecFormatNext) ==
    IF ptr = nullptr
    THEN /\ vecFactoryNext = vecFactory
         /\ vecFormatNext = vecFormat
         /\ destroyed' = destroyed
    ELSE IF containsFormat(vecFactory, ptr)
    THEN /\ vecFactoryNext = vecFactory
         /\ vecFormatNext = vecFormat
         /\ destroyed' = destroyed \cup {ptr}
    ELSE \/ /\ vecFormatNext = PushBackAbsent(vecFormat, formats(ptr), 1)
            /\ vecFactoryNext = Append(vecFactory, ptr)
            /\ destroyed' = destroyed
         \/ /\ \E k \in DOMAIN vecFactory : vecFactory[k] \in destroyed
            /\ vecFactoryNext = vecFactory
            /\ vecFormatNext = vecFormat
            /\ destroyed' = destroyed \cup {ptr}

\* System::addFactoryReader.  The caller passes null or a pointer to a
\* factory that is alive.
addFactoryReader(ptr) ==
    /\ ptr \notin destroyed
    /\ addFactory(ptr, m_vecFactoryReader, m_vecReaderFormat,
                  m_vecFactoryReader', m_vecReaderFormat')
    /\ UNCHANGED <<m_vecFormatProbe, m_vecFactoryWriter, m_vecWriterFormat,
                   importVars, exportVars, fnVars>>

\* System::addFactoryWriter
addFactoryWriter(ptr) ==
    /\ ptr \notin destroyed
    /\ addFactory(ptr, m_vecFactoryWriter, m_vecWriterFormat,
                  m_vecFactoryWriter', m_vecWriterFormat')
    /\ UNCHANGED <<m_vecFormatProbe, m_vecFactoryReader, m_vecReaderFormat,
                   importVars, exportVars, fnVars>>

\* What a lookup can do once it has dereferenced a deleted factory (the
\* behaviour is undefined): return any pointer, or not return at all.
Undefined == ReaderFactories \cup WriterFactories \cup {nullptr, "fault"}

\* The loop of findFactoryReader / findFactoryWriter from element k on: the
\* set of pointers it can return.  Calling formats() on a deleted factory is
\* undefined behaviour.
RECURSIVE findFactory(_, _, _)
findFactory(vecFactory, format, k) ==
    IF k > Len(vecFactory) THEN {nullptr}
    ELSE IF vecFactory[k] \in destroyed THEN Undefined
    ELSE IF containsFormat(formats(vecFactory[k]), format) THEN {vecFactory[k]}
    ELSE findFactory(vecFactory, format, k + 1)

\* System::findFactoryReader
findFactoryReader(format) == findFactory(m_vecFactoryReader, format, 1)

\* System::findFactoryWriter
findFactoryWriter(format) == findFactory(m_vecFactoryWriter, format, 1)

\* No import requested: the variables of importInDocument as Init leaves
\* them, for an empty list of files.
ImportIdle ==
    /\ listFilepath = << >>
    /\ argsPostProcess = [entityPostProcess |-> FALSE, requiredIf |-> {Format_STEP}]
    /\ abort = FALSE
    /\ ok = TRUE
    /\ messenger = [p \in 1..MaxFiles |-> << >>]
    /\ vecTaskData = << >>
    /\ wpc = << >>
    /\ pc = "start"
    /\ it = 0
    /\ taskDataCount = 0
    /\ doc = << >>
    /\ postProcessed = << >>
    /\ result = << >>
    /\ inTransfer = {}
    /\ docThreads = {}
    /\ joined = {}
    /\ doneOrder = << >>
    /\ xferOrder = << >>
    /\ scanDone = {}
    /\ abortAt = -1

\* The System alone: nothing imported, nothing exported.
InitRegistry ==
    /\ ImportIdle
    /\ RegistryEmpty
    /\ ExportIdle
    /\ FnIdle

\* The number of probers of the callers now registered.
CallerProbes == Cardinality({k \in DOMAIN m_vecFormatProbe : m_vecFormatProbe[k] \in FormatProbes})

\* The predefined probers are registered.
PredefinedRegistered == containsFormat(m_vecFormatProbe, PredefinedFormatProbes[1])

\* The callers: up to MaxProbes probers of their own, the predefined probers
\* at most once, and any factory any number of times.
NextRegistry ==
    \/ \E probe \in FormatProbes : CallerProbes < MaxProbes /\ addFormatProbe(probe)
    \/ \E system \in {nullptr, "system"} :
          ~PredefinedRegistered /\ addPredefinedFormatProbes(system)
    \/ \E ptr \in ReaderFactories \cup {nullptr} : addFactoryReader(ptr)
    \/ \E ptr \in WriterFactories \cup {nullptr} : addFactoryWriter(ptr)

SpecRegistry == InitRegistry /\ [][NextRegistry]_vars

\* The factory of vecFactory registered first among those that advertise
\* format, nullptr when none does.
EarliestAdvertising(vecFactory, format) ==
    LET K == {k \in DOMAIN vecFactory : containsFormat(formats(vecFactory[k]), format)}
    IN IF K = {} THEN nullptr
       ELSE vecFactory[CHOOSE k \in K : \A j \in K : k <= j]

\* C11: after any sequence of addFactoryReader / addFactoryWriter calls,
\* findFactoryReader(F) and findFactoryWriter(F) return the factory registered
\* first among those advertising F, and null when none advertises F.
FirstMatchWins ==
    \A format \in KnownFormats :
        /\ findFactoryReader(format) = {EarliestAdvertising(m_vecFactoryReader, format)}
        /\ findFactoryWriter(format) = {EarliestAdvertising(m_vecFactoryWriter, format)}

\* C12: a call of addFactoryReader (addFactoryWriter) with a null pointer or
\* with a pointer already in the factory list leaves the registry as it was:
\* the factory list, the format list, and the factories they refer to.
RegistrationIdempotent ==
    [][\A ptr \in ReaderFactories \cup WriterFactories \cup {nullptr} :
         /\ (/\ ptr = nullptr \/ containsFormat(m_vecFactoryReader, ptr)
             /\ addFactoryReader(ptr))
            => UNCHANGED <<m_vecFactoryReader, m_vecReaderFormat, destroyed>>
         /\ (/\ ptr = nullptr \/ containsFormat(m_vecFactoryWriter, ptr)
             /\ addFactoryWriter(ptr))
            => UNCHANGED <<m_vecFactoryWriter, m_vecWriterFormat, destroyed>>]_vars

\* The elements of seq are pairwise distinct.
NoDuplicate(seq) == \A a, b \in DOMAIN seq : seq[a] = seq[b] => a = b

\* Where format is advertised first: <<k, j>> for element j of the span of
\* the k-th registered factory, no earlier position holding format.
FirstAdvertisement(vecFactory, format) ==
    LET P == {kj \in (DOMAIN vecFactory) \X (1..2) :
                /\ kj[2] \in DOMAIN formats(vecFactory[kj[1]])
                /\ formats(vecFactory[kj[1]])[kj[2]] = format}
    IN CHOOSE kj \in P : \A q \in P : \/ kj[1] < q[1]
                                       \/ (kj[1] = q[1] /\ kj[2] <= q[2])

\* vecFormat holds, once each and in order of first advertisement, exactly
\* the formats the factories of vecFactory advertise.
FormatsOfFactories(vecFactory, vecFormat) ==
    /\ NoDuplicate(vecFormat)
    /\ \A format \in KnownFormats :
          containsFormat(vecFormat, format)
          <=> \E k \in DOMAIN vecFactory : containsFormat(formats(vecFactory[k]), format)
    /\ \A a, b \in DOMAIN vecFormat :
          a < b => LET pa == FirstAdvertisement(vecFactory, vecFormat[a])
                       pb == FirstAdvertisement(vecFactory, vecFormat[b])
                   IN pa[1] < pb[1] \/ (pa[1] = pb[1] /\ pa[2] < pb[2])

\* C13: in every state reachable by addFactoryReader / addFactoryWriter the
\* factory lists hold no factory twice, each format list holds once each and
\* in order of first advertisement exactly the formats its factories
\* advertise, and a format is in the format list if and only if
\* findFactoryReader (findFactoryWriter) returns non-null for it.
RegistryInvariants ==
    /\ NoDuplicate(m_vecFactoryReader)
    /\ NoDuplicate(m_vecFactoryWriter)
    /\ FormatsOfFactories(m_vecFactoryReader, m_vecReaderFormat)
    /\ FormatsOfFactories(m_vecFactoryWriter, m_vecWriterFormat)
    /\ \A format \in KnownFormats :
          /\ containsFormat(m_vecReaderFormat, format)
             <=> findFactoryReader(format) \subseteq ReaderFactories
          /\ containsFormat(m_vecWriterFormat, format)
             <=> findFactoryWriter(format) \subseteq WriterFactories

\* ====================================================================
\* System::probeFormat
\* ====================================================================
\* The extensions of the probed paths (FilePath::extension(): empty, or a dot
\* and the characters after it), as sequences of characters.
Extensions ==
    {<< >>, <<".", "S", "T", "P">>, <<".", "S", "t", "l">>,
     <<".", "S", "T", "E", "P">>, <<".", "O", "b", "J">>, <<".", "s", "t">>,
     <<".", "x", "y", "z">>}

\* What the probers answer on a sampled file: a caller's prober any format, a
\* predefined prober its own format or Unknown.  The predefined probers are
\* independent functions of the sample and one sample can satisfy several of
\* them, except that probeFormat_STEP and probeFormat_OCCBREP both test the
\* first token of the sample, and that the pattern of probeFormat_OBJ matches
\* no sample.
ProbeAnswers ==
    {[probe \in FormatProbes \cup Range(PredefinedFormatProbes) |->
         IF probe \in FormatProbes THEN u[probe]
         ELSE IF probe \in recognising THEN PredefinedAnswer(probe)
         ELSE Format_Unknown] :
       u \in [FormatProbes -> {Format_Unknown} \cup KnownFormats],
       recognising \in
         {r \in SUBSET (Range(PredefinedFormatProbes) \ {"probeFormat_OBJ"}) :
            ~({"probeFormat_STEP", "probeFormat_OCCBREP"} \subseteq r)}}

\* A probed path: whether std::ifstream::open succeeds, whether
\* std::filesystem::file_size reports a size or throws (a directory opens
\* and has no size; no prober is called on it), what each prober answers on
\* the first 2048 bytes and size, and the extension of the path.
ProbedFiles ==
    [isOpen : BOOLEAN, file_size : {"size"},
     answer : ProbeAnswers, extension : Extensions]
    \cup
    [isOpen : {TRUE}, file_size : {filesystem_error},
     answer : {[probe \in FormatProbes \cup Range(PredefinedFormatProbes) |->
                  Format_Unknown]},
     extension : Extensions]

\* formatFileSuffixes: the canonical suffixes of a format.
formatFileSuffixes(format) ==
    CASE format = Format_STEP -> <<<<"s", "t", "p">>, <<"s", "t", "e", "p">>>>
      [] format = Format_STL -> <<<<"s", "t", "l">>>>
      [] format = Format_OBJ -> <<<<"o", "b", "j">>>>
      [] OTHER -> << >>

\* The lower case letter of each upper case letter of the classic locale.
LowerCase ==
    ("A" :> "a") @@ ("B" :> "b") @@ ("C" :> "c") @@ ("D" :> "d") @@
    ("E" :> "e") @@ ("F" :> "f") @@ ("G" :> "g") @@ ("H" :> "h") @@
    ("I" :> "i") @@ ("J" :> "j") @@ ("K" :> "k") @@ ("L" :> "l") @@
    ("M" :> "m") @@ ("N" :> "n") @@ ("O" :> "o") @@ ("P" :> "p") @@
    ("Q" :> "q") @@ ("R" :> "r") @@ ("S" :> "s") @@ ("T" :> "t") @@
    ("U" :> "u") @@ ("V" :> "v") @@ ("W" :> "w") @@ ("X" :> "x") @@
    ("Y" :> "y") @@ ("Z" :> "z")

\* std::tolower(c, std::locale::classic())
tolower(c) == IF c \in DOMAIN LowerCase THEN LowerCase[c] ELSE c

\* fnCharIEqual
fnCharIEqual(lhs, rhs) == tolower(lhs) = tolower(rhs)

\* fileSuffix: the extension without its leading dot.
fileSuffix(file) ==
    IF file.extension # << >> /\ Head(file.extension) = "."
    THEN Tail(file.extension)
    ELSE file.extension

\* fnMatchFileSuffix
fnMatchFileSuffix(file, format) ==
    \E c \in DOMAIN formatFileSuffixes(format) :
        LET candidate == formatFileSuffixes(format)[c]
        IN /\ Len(candidate) = Len(fileSuffix(file))
           /\ \A i \in DOMAIN candidate : fnCharIEqual(candidate[i], fileSuffix(file)[i])

\* The loop over m_vecFormatProbe from prober k on: the first answer that is
\* not Format_Unknown, Format_Unknown when there is none.
RECURSIVE ProbeLoop(_, _)
ProbeLoop(file, k) ==
    IF k > Len(m_vecFormatProbe) THEN Format_Unknown
    ELSE IF file.answer[m_vecFormatProbe[k]] # Format_Unknown
         THEN file.answer[m_vecFormatProbe[k]]
         ELSE ProbeLoop(file, k + 1)

\* A loop "for (Format format : vecFormat) if (fnMatchFileSuffix(format))
\* return format" from element k on; Format_Unknown when it falls through.
RECURSIVE SuffixLoop(_, _, _)
SuffixLoop(file, vecFormat, k) ==
    IF k > Len(vecFormat) THEN Format_Unknown
    ELSE IF fnMatchFileSuffix(file, vecFormat[k]) THEN vecFormat[k]
         ELSE SuffixLoop(file, vecFormat, k + 1)

\* System::probeFormat: the format returned, or the exception that leaves it
\* (file_size is called on the opened path before any prober).
probeFormat(file) ==
    LET probed == IF file.isOpen THEN ProbeLoop(file, 1) ELSE Format_Unknown
        byReader == SuffixLoop(file, m_vecReaderFormat, 1)
        byWriter == SuffixLoop(file, m_vecWriterFormat, 1)
    IN IF file.isOpen /\ file.file_size = filesystem_error THEN filesystem_error
       ELSE IF probed # Format_Unknown THEN probed
       ELSE IF byReader # Format_Unknown THEN byReader
       ELSE byWriter

\* The extension of file, in lower case, is a canonical suffix of format.
SuffixOf(file, format) ==
    LET lower(str) == [i \in DOMAIN str |-> tolower(str[i])]
        suffixes == formatFileSuffixes(format)
    IN \E c \in DOMAIN suffixes : lower(suffixes[c]) = lower(fileSuffix(file))

\* The registry as probeFormat can find it: the callers' probers, the
\* predefined probers, and factories registered once each by their owner
\* (a repeated registration leaves the vectors probeFormat reads unchanged).
NextProbe ==
    \/ \E probe \in FormatProbes : CallerProbes < MaxProbes /\ addFormatProbe(probe)
    \/ \E system \in {nullptr, "system"} :
          ~PredefinedRegistered /\ addPredefinedFormatProbes(system)
    \/ \E ptr \in ReaderFactories \cup {nullptr} :
          ~containsFormat(m_vecFactoryReader, ptr) /\ addFactoryReader(ptr)
    \/ \E ptr \in WriterFactories \cup {nullptr} :
          ~containsFormat(m_vecFactoryWriter, ptr) /\ addFactoryWriter(ptr)

SpecProbe == InitRegistry /\ [][NextProbe]_vars

\* The smallest position of the non-empty set of positions K.
FirstOf(K) == CHOOSE k \in K : \A j \in K : k <= j

\* C14: probeFormat returns the answer of the first prober, in registration
\* order, that does not answer Unknown; when every prober answers Unknown or
\* the file cannot be opened, the first format of the reader format list,
\* then of the writer format list, whose canonical suffixes contain the
\* extension compared case-insensitively; Unknown when no rule matches.
ProbeFormatContract ==
    \A file \in ProbedFiles :
        LET answering == {k \in DOMAIN m_vecFormatProbe :
                            file.answer[m_vecFormatProbe[k]] # Format_Unknown}
            byReader == {k \in DOMAIN m_vecReaderFormat :
                           SuffixOf(file, m_vecReaderFormat[k])}
            byWriter == {k \in DOMAIN m_vecWriterFormat :
                           SuffixOf(file, m_vecWriterFormat[k])}
        IN probeFormat(file) =
             IF file.isOpen /\ answering # {}
             THEN file.answer[m_vecFormatProbe[FirstOf(answering)]]
             ELSE IF byReader # {} THEN m_vecReaderFormat[FirstOf(byReader)]
             ELSE IF byWriter # {} THEN m_vecWriterFormat[FirstOf(byWriter)]
             ELSE Format_Unknown

\* ====================================================================
\* probeFormat_STL
\* ====================================================================
\* Unsigned integers are little-endian sequences of bytes, so that the width
\* of every operation is explicit: 4 bytes for uint32_t and unsigned, 8 bytes
\* for size_t and std::uintmax_t.
RECURSIVE ToBytes(_, _)
ToBytes(n, width) ==
    IF width = 0 THEN << >> ELSE <<n % 256>> \o ToBytes(n \div 256, width - 1)

\* bytes * m + carry, of the width of bytes: the carry out of the last byte
\* is lost (unsigned arithmetic is modulo 2^(8 * width)).
RECURSIVE MulBytes(_, _, _)
MulBytes(bytes, m, carry) ==
    IF bytes = << >> THEN << >>
    ELSE <<(Head(bytes) * m + carry) % 256>>
         \o MulBytes(Tail(bytes), m, (Head(bytes) * m + carry) \div 256)

\* x + y + carry for x and y of the same width, of that width.
RECURSIVE AddBytes(_, _, _)
AddBytes(x, y, carry) ==
    IF x = << >> THEN << >>
    ELSE <<(Head(x) + Head(y) + carry) % 256>>
         \o AddBytes(Tail(x), Tail(y), (Head(x) + Head(y) + carry) \div 256)

\* Integral conversion of an unsigned value to a wider unsigned type.
Widen(bytes, width) == bytes \o [i \in 1..(width - Len(bytes)) |-> 0]

\* constexpr size_t binaryStlHeaderSize = 80 + sizeof(uint32_t)
binaryStlHeaderSize == 84
\* constexpr unsigned facetSize = (sizeof(float) * 12) + sizeof(uint16_t)
facetSize == 50

\* The values of the bytes at offsets 80..83 of the sample.
ByteValues == {0, 1, 5, 30, 82, 184, 255}
\* sample.size(): 2048 when the prober is called by System::probeFormat.
SampleSizes == {83, 84, 2048}
\* input.hintFullSize
FileSizes == {0, 83, 84, 88, 134, 334, 12834}

\* The arguments of probeFormat_STL: the size of the sample, its bytes at
\* offsets 80..83 (present when the sample has them), whether its first
\* characters after white space are "solid", and the size of the file.
StlInputs ==
    [sampleSize : SampleSizes,
     bytes : [0..3 -> ByteValues],
     asciiSolid : BOOLEAN,
     hintFullSize : FileSizes]

\* uint32_t facetsCount = bytes[offset] | (bytes[offset+1] << 8)
\*                        | (bytes[offset+2] << 16) | (bytes[offset+3] << 24)
facetsCount(input) ==
    <<input.bytes[0], input.bytes[1], input.bytes[2], input.bytes[3]>>

\* facetSize * facetsCount + binaryStlHeaderSize: the product is an unsigned
\* (32 bits) by uint32_t multiplication, the sum is made in size_t (64 bits).
BinaryStlSize(input) ==
    AddBytes(Widen(MulBytes(facetsCount(input), facetSize, 0), 8),
             ToBytes(binaryStlHeaderSize, 8), 0)

\* The test of the "Binary STL ?" block.
BinaryStl(input) ==
    /\ input.sampleSize >= binaryStlHeaderSize
    /\ BinaryStlSize(input) = ToBytes(input.hintFullSize, 8)

\* probeFormat_STL
probeFormat_STL(input) ==
    IF BinaryStl(input) THEN Format_STL
    ELSE IF input.asciiSolid THEN Format_STL
    ELSE Format_Unknown

InitStl ==
    /\ ImportIdle
    /\ RegistryEmpty
    /\ ExportIdle
    /\ fnInput \in StlInputs
    /\ fnResult = << >>

ApplyProbeFormat_STL ==
    /\ fnInput \in StlInputs
    /\ fnResult = << >>
    /\ fnResult' = <<probeFormat_STL(fnInput)>>
    /\ UNCHANGED <<fnInput, importVars, registryVars, exportVars>>

SpecStl == InitStl /\ [][ApplyProbeFormat_STL]_vars

\* 84 + 50 * n for the facet count n of the input, without wraparound.
ExactStlSize(input) ==
    AddBytes(MulBytes(Widen(facetsCount(input), 8), facetSize, 0),
             ToBytes(binaryStlHeaderSize, 8), 0)

\* C15: the binary branch of probeFormat_STL accepts only when the file size
\* equals 84 + 50 * n, computed without wraparound, for the facet count n
\* read at offset 80; a file shorter than 84 bytes is never accepted by it.
BinaryStlSizeExact ==
    (fnResult = <<Format_STL>> /\ ~fnInput.asciiSolid)
    => /\ ToBytes(fnInput.hintFullSize, 8) = ExactStlSize(fnInput)
       /\ fnInput.hintFullSize >= binaryStlHeaderSize

\* ====================================================================
\* System::exportApplicationItems
\* ====================================================================
\* nullMessenger(): the process-wide NullMessenger::instance().
nullMessenger == "NullMessenger::instance()"

\* The messengers a caller passes in args.messenger.
CallerMessengers == {nullptr, "callerMessenger"}

\* Messenger* messenger = args.messenger ? args.messenger : nullMessenger()
exportMessenger ==
    IF exportArgs.messenger # nullptr THEN exportArgs.messenger ELSE nullMessenger

\* What FactoryWriter::create yields for a format the factory advertises: a
\* writer, or no writer.
CreatedByFactory == {"writer", nullptr}

\* System::createWriter: the writers it can return.  "fault" stands for a
\* call that does not return (undefined behaviour on a deleted factory).
createWriter(format) ==
    UNION {IF ptr = "fault" THEN {"fault"}
           ELSE IF ptr = nullptr THEN {nullptr}
           ELSE IF ptr \in destroyed THEN CreatedByFactory \cup {"fault"}
           ELSE CreatedByFactory : ptr \in findFactoryWriter(format)}

\* fnError, and the "return fnError(...)" that follows: one Error message
\* through the local messenger, then the operation returns false.
fnError(errorMsg) ==
    /\ exportMessages' = Append(exportMessages,
                                [sink |-> exportMessenger, reason |-> errorMsg])
    /\ exportResult' = <<FALSE>>
    /\ exportPc' = "returned"

\* exportApplicationItems from its entry to the call of Writer::transfer.
ExportCreateWriter ==
    /\ exportPc = "start"
    /\ \E writer \in createWriter(exportArgs.targetFormat) :
          IF writer = "fault"
          THEN /\ exportPc' = "fault"
               /\ UNCHANGED <<writerMessenger, exportCalls, exportMessages, exportResult>>
          ELSE IF writer = nullptr
          THEN /\ fnError("No supporting writer")
               /\ UNCHANGED <<writerMessenger, exportCalls>>
          ELSE /\ writerMessenger' = <<exportArgs.messenger>>
               /\ exportCalls' = <<[fn |-> "setMessenger", ok |-> TRUE],
                                   [fn |-> "applyProperties", ok |-> TRUE]>>
               /\ exportPc' = "transfer"
               /\ UNCHANGED <<exportMessages, exportResult>>
    /\ UNCHANGED <<exportArgs, importVars, registryVars, fnVars>>

\* Variant of WriterTransfer that goes on to writeFile whatever transfer returns.
WriterTransfer_ignoresFailure(okTransfer) ==
    /\ exportPc = "transfer"
    /\ exportCalls' = Append(exportCalls, [fn |-> "transfer", ok |-> okTransfer])
    /\ exportPc' = "writeFile"
    /\ UNCHANGED <<exportMessages, exportResult>>
    /\ UNCHANGED <<exportArgs, writerMessenger, importVars, registryVars, fnVars>>

\* Writer::transfer returns okTransfer.
WriterTransfer(okTransfer) ==
    /\ exportPc = "transfer"
    /\ exportCalls' = Append(exportCalls, [fn |-> "transfer", ok |-> okTransfer])
    /\ IF ~okTransfer
       THEN fnError("File transfer problem")
       ELSE /\ exportPc' = "writeFile"
            /\ UNCHANGED <<exportMessages, exportResult>>
    /\ UNCHANGED <<exportArgs, writerMessenger, importVars, registryVars, fnVars>>

\* Writer::writeFile returns okWriteFile.
WriterWriteFile(okWriteFile) ==
    /\ exportPc = "writeFile"
    /\ exportCalls' = Append(exportCalls, [fn |-> "writeFile", ok |-> okWriteFile])
    /\ IF ~okWriteFile
       THEN fnError("File write problem")
       ELSE /\ exportResult' = <<TRUE>>
            /\ exportPc' = "returned"
            /\ UNCHANGED exportMessages
    /\ UNCHANGED <<exportArgs, writerMessenger, importVars, registryVars, fnVars>>

\* The writer factories are registered, then exportApplicationItems is
\* called with some messenger and some target format.
InitExport ==
    /\ ImportIdle
    /\ RegistryEmpty
    /\ FnIdle
    /\ exportArgs \in [messenger : CallerMessengers, targetFormat : KnownFormats]
    /\ exportPc = "start"
    /\ writerMessenger = << >>
    /\ exportCalls = << >>
    /\ exportMessages = << >>
    /\ exportResult = << >>

RegisterWriter ==
    /\ exportPc = "start"
    /\ \E ptr \in WriterFactories : addFactoryWriter(ptr)

NextExport ==
    \/ RegisterWriter
    \/ ExportCreateWriter
    \/ \E okTransfer \in BOOLEAN : WriterTransfer(okTransfer)
    \/ \E okWriteFile \in BOOLEAN : WriterWriteFile(okWriteFile)

SpecExport == InitExport /\ [][NextExport]_vars

\* The calls of fn made on the writer so far, as positions in exportCalls.
CallsOf(fn) == {k \in DOMAIN exportCalls : exportCalls[k].fn = fn}

\* fn was called on the writer and returned true.
ReturnedTrue(fn) == \E k \in CallsOf(fn) : exportCalls[k].ok

\* C16: exportApplicationItems returns true if and only if a writer exists
\* for the target format, Writer::transfer returned true and
\* Writer::writeFile returned true; transfer runs before writeFile, writeFile
\* is never invoked after a failed transfer, and a run that fails emits
\* exactly one Error, with the reason of the failing stage.
ExportContract ==
    /\ exportPc = "returned"
       => /\ exportResult = <<TRUE>>
             <=> (/\ writerMessenger # << >>
                  /\ ReturnedTrue("transfer")
                  /\ ReturnedTrue("writeFile"))
          /\ exportResult = <<TRUE>> => exportMessages = << >>
          /\ exportResult = <<FALSE>>
             => /\ Len(exportMessages) = 1
                /\ exportMessages[1].reason =
                     IF writerMessenger = << >> THEN "No supporting writer"
                     ELSE IF ~ReturnedTrue("transfer") THEN "File transfer problem"
                     ELSE "File write problem"
    /\ exportPc # "returned" => exportMessages = << >> /\ exportResult = << >>
    /\ Cardinality(CallsOf("transfer")) <= 1
    /\ Cardinality(CallsOf("writeFile")) <= 1
    /\ \A w \in CallsOf("writeFile") :
          \E t \in CallsOf("transfer") : t < w /\ exportCalls[t].ok

\* An export has returned false because writeFile failed after a successful
\* transfer, with its one Error.
ExportFailedAtWriteFile ==
    /\ exportPc = "returned"
    /\ exportResult = <<FALSE>>
    /\ ReturnedTrue("transfer")
    /\ CallsOf("writeFile") # {}
    /\ Len(exportMessages) = 1
    /\ exportMessages[1].reason = "File write problem"

\* C17: when the caller supplies no messenger the null messenger is used in
\* its place everywhere: the messenger handed to the writer through
\* setMessenger and the messenger every Error is emitted through are
\* instances, never a null pointer.
NullMessengerSubstituted ==
    /\ \A k \in DOMAIN writerMessenger : writerMessenger[k] # nullptr
    /\ \A k \in DOMAIN exportMessages : exportMessages[k].sink # nullptr

\* ====================================================================
\* probeFormat_OBJ
\* ====================================================================
\* Longest sample given to probeFormat_OBJ; the shortest text the pattern
\* describes, quotes included, has six characters.
MaxSample == 6

\* The characters of the samples; a sample is a sequence of them.
Quote == "\""
Chars == {Quote, " ", "\n", "v", "1"}
\* The vertical tab (byte 11).
VerticalTab == "\\v"
\* The six characters \s matches.
WhiteSpace == {" ", "\n", "\t", "\r", "\f", VerticalTab}
LineTerminators == {"\n", "\r"}
\* The alternatives of (v|vt|vn|vp|surf).
Directives == {<<"v">>, <<"v", "t">>, <<"v", "n">>, <<"v", "p">>,
               <<"s", "u", "r", "f">>}
NumberChars == {"0", "1", "2", "3", "4", "5", "6", "7", "8", "9", "."}
Signs == {"-", "+"}

\* The arguments of probeFormat_OBJ: the sample, and whether the regex
\* library lets ^ match after a line terminator (libraries differ).
ObjInputs ==
    [sample : UNION {[1..n -> Chars] : n \in 0..MaxSample},
     multiline : BOOLEAN]

\* The characters of str from position a up to, not including, position b.
Slice(str, a, b) == SubSeq(str, a, b - 1)

\* Every character of str from a up to, not including, b is in set.
AllIn(str, a, b, set) == \A i \in a..(b - 1) : str[i] \in set

\* The assertion ^ at position pos of input.sample (the position of the next
\* character to match).
BeginAssertion(input, pos) ==
    \/ pos = 1
    \/ input.multiline /\ input.sample[pos - 1] \in LineTerminators

\* \s*(v|vt|vn|vp|surf)\s+[-\+]?[0-9\.]+ matches str from position a up
\* to, not including, position e.
DirectiveAndNumber(str, a, e) ==
    \E b, c, d \in a..e :
        /\ a <= b /\ b < c /\ c < d /\ d < e
        /\ AllIn(str, a, b, WhiteSpace)
        /\ Slice(str, b, c) \in Directives
        /\ AllIn(str, c, d, WhiteSpace)
        /\ \/ AllIn(str, d, e, NumberChars)
           \/ str[d] \in Signs /\ d + 1 < e /\ AllIn(str, d + 1, e, NumberChars)

\* std::regex_search(sample.cbegin(), sample.cend(), rx) for the rx of line
\* 590, whose pattern is  "^\s*(v|vt|vn|vp|surf)\s+[-\+]?[0-9\.]+\s"
\* with both quote characters part of it: a match starts at a quote.
regex_search(input) ==
    LET str == input.sample
    IN \E q \in DOMAIN str : \E e \in (q + 1)..(Len(str) - 1) :
          /\ str[q] = Quote
          /\ BeginAssertion(input, q + 1)
          /\ DirectiveAndNumber(str, q + 1, e)
          /\ str[e] \in WhiteSpace
          /\ str[e + 1] = Quote

\* probeFormat_OBJ
probeFormat_OBJ(input) ==
    IF regex_search(input) THEN Format_OBJ ELSE Format_Unknown

InitObj ==
    /\ ImportIdle
    /\ RegistryEmpty
    /\ ExportIdle
    /\ fnInput \in ObjInputs
    /\ fnResult = << >>

ApplyProbeFormat_OBJ ==
    /\ fnInput \in ObjInputs
    /\ fnResult = << >>
    /\ fnResult' = <<probeFormat_OBJ(fnInput)>>
    /\ UNCHANGED <<fnInput, importVars, registryVars, exportVars>>

SpecObj == InitObj /\ [][ApplyProbeFormat_OBJ]_vars

\* str contains a line that begins, after leading white space, with one of
\* v, vt, vn, vp, surf followed by white space, a signed decimal number and
\* a white space character: what the pattern of line 590 without its two
\* quote characters finds, ^ taken at a line beginning.
HasDirectiveLine(str) ==
    \E a \in DOMAIN str : \E e \in (a + 1)..Len(str) :
        /\ a = 1 \/ str[a - 1] \in LineTerminators
        /\ DirectiveAndNumber(str, a, e)
        /\ str[e] \in WhiteSpace

\* C18: probeFormat_OBJ returns Format_OBJ for every prefix that contains a
\* line beginning, after leading white space, with one of v, vt, vn, vp, surf
\* followed by white space and a signed decimal number, and Unknown for every
\* other prefix.
ObjRecognisesDirectiveLines ==
    fnResult # << >>
    => (fnResult = <<Format_OBJ>> <=> HasDirectiveLine(fnInput.sample))

\* ====================================================================
\* The drain loop's counter, and the progress portions of a file
\* ====================================================================
\* C19: in the drain loop of the many-files case every task an iteration
\* selects is marked transferred, whether or not its read succeeded: at the
\* loop test the remaining counter is the number of task records not yet
\* marked transferred, and the counter is zero only when every record is.
DrainCounterCountsUntransferred ==
    (~SingleFile /\ pc = "loop")
    => taskDataCount = Cardinality({i \in DOMAIN vecTaskData :
                                      ~vecTaskData[i].transferred})

\* The 100 of "(100 - args.entityPostProcessProgressSize) / 100.".
Percent == 100

\* What the portions of one file depend on: whether probeFormat knew the
\* format, whether post-processing is required for it, whether fnReadFile
\* returned true, and args.entityPostProcessProgressSize.
PortionInputs ==
    [fileFormatKnown : BOOLEAN, required : BOOLEAN, readSuccess : BOOLEAN,
     entityPostProcessProgressSize : 0..Percent]

\* The int that "portionSize *= factor" leaves in portionSize for the factor
\* num / 100.: the product is made in double and converted back to int,
\* which truncates toward zero.
TimesFraction(portionSize, num) ==
    IF portionSize * num >= 0
    THEN (portionSize * num) \div Percent
    ELSE -((-(portionSize * num)) \div Percent)

\* The portionSize of fnReadFile (start = 40) and of fnTransfer (start = 60).
portionSize(start, input) ==
    IF input.required
    THEN TimesFraction(start, Percent - input.entityPostProcessProgressSize)
    ELSE start

InitPortions ==
    /\ ImportIdle
    /\ RegistryEmpty
    /\ ExportIdle
    /\ fnInput \in PortionInputs
    /\ fnResult = << >>

\* fnReadFile, lines 226-230: the "Reading file" progress takes its portion
\* once the format is known (an Unknown format has returned at line 224).
ReadPortion ==
    /\ fnInput \in PortionInputs
    /\ fnResult = << >>
    /\ fnInput.fileFormatKnown
    /\ fnResult' = <<portionSize(40, fnInput)>>
    /\ UNCHANGED <<fnInput, importVars, registryVars, exportVars>>

\* fnTransfer, lines 247-251: the "Transferring file" progress takes its
\* portion; fnTransfer is called when fnReadFile returned true.
TransferPortion ==
    /\ fnInput \in PortionInputs
    /\ Len(fnResult) = 1
    /\ fnInput.readSuccess
    /\ fnResult' = Append(fnResult, portionSize(60, fnInput))
    /\ UNCHANGED <<fnInput, importVars, registryVars, exportVars>>

\* fnPostProcess, lines 260-267: called after fnTransfer; it returns at once
\* when post-processing is not required, otherwise its progress takes
\* args.entityPostProcessProgressSize.
PostProcessPortion ==
    /\ fnInput \in PortionInputs
    /\ Len(fnResult) = 2
    /\ fnInput.required
    /\ fnResult' = Append(fnResult, fnInput.entityPostProcessProgressSize)
    /\ UNCHANGED <<fnInput, importVars, registryVars, exportVars>>

NextPortions == ReadPortion \/ TransferPortion \/ PostProcessPortion

SpecPortions == InitPortions /\ [][NextPortions]_vars

\* C20: for every post-process percentage in 0..100 the portions of a file
\* whose stages have all run partition its progress: read, transfer and
\* post-process sum to exactly 100 when post-processing is required, and
\* read = 40, transfer = 60 when not.
PortionsSumTo100 ==
    /\ (fnInput \in PortionInputs /\ fnInput.required /\ Len(fnResult) = 3)
       => fnResult[1] + fnResult[2] + fnResult[3] = 100
    /\ (fnInput \in PortionInputs /\ ~fnInput.required /\ Len(fnResult) = 2)
       => fnResult[1] = 40 /\ fnResult[2] = 60

\* ====================================================================
\* Transfers and attachments of one importInDocument run
\* ====================================================================
\* The entity handles the transfers of this operation have returned so far.
ReturnedByTransfer ==
    UNION {Range(vecTaskData[i].seqTransferredEntity) : i \in DOMAIN vecTaskData}

\* The files whose entities fnAddModelTreeEntities has not been given yet:
\* the file being handled, between its transfer and its attachment.
BeingHandled == IF pc \in {"in_transfer", "postprocess", "addtree"} THEN {it} ELSE {}

\* C21: Reader::transfer is invoked at most once per file; every entity
\* handle a transfer returned is passed to addEntityTreeNode exactly once (as
\* soon as fnAddModelTreeEntities has run for its file, hence when the
\* operation returns); nothing is attached that no transfer of the operation
\* returned.
TransferOnceAttachOnce ==
    /\ NoDuplicate(xferOrder)
    /\ NoDuplicate(doc)
    /\ Range(doc) \subseteq ReturnedByTransfer
    /\ \A i \in DOMAIN vecTaskData :
          i \notin BeingHandled
          => Range(vecTaskData[i].seqTransferredEntity) \subseteq Range(doc)

\* Two files have each been transferred once, each transfer returned the
\* largest sequence, and the operation has returned with all of them attached.
ReturnedWithAllAttached ==
    /\ pc = "returned"
    /\ N = MaxFiles
    /\ Len(xferOrder) = N
    /\ \A i \in Files : Len(vecTaskData[i].seqTransferredEntity) = MaxEnt
    /\ Len(doc) = N * MaxEnt

\* The read tasks of the many-files case that have not finished.
RunningReadTasks == IF SingleFile THEN {} ELSE {i \in DOMAIN wpc : ~waitForDone(i)}

====
